---- MODULE Spec2Model ----
(***************************************************************************)
(* The redaction app: Document and Redaction rows, the Django admin that   *)
(* creates and deletes them, and document_download_redacted, which builds  *)
(* a PDF with one black /Square annotation per stored redaction.           *)
(*                                                                         *)
(* A download is a sequence of steps: the view looks the document up and   *)
(* opens its file, then runs one database query per page                   *)
(* (redactions.filter(coordinates__page=...) on a lazy QuerySet), and at   *)
(* last serialises the writer.  Other requests and admin operations may    *)
(* run between two page queries.  Coordinates are whole points.            *)
(***************************************************************************)
EXTENDS Integers, Sequences, FiniteSets, TLC

\* ---------------------------------------------------------------- bounds
NumDocuments  == 2   \* seeded documents; document d has d pages
MaxRedactions == 2   \* Redaction rows created in one behaviour
MaxRequests   == 2   \* download requests in one behaviour
MaxPt         == 3   \* largest coordinate tried on the coordinate mapping alone
MaxBurn       == 2   \* rectangles burned into one page on the page burner alone
MaxSeeds      == 1   \* runs of seed_documents after the first
MaxUploads    == 1   \* documents added through the admin

\* reportlab's `letter` page size, in points
LetterWidth  == 612
LetterHeight == 792

VARIABLES
    documents,   \* Document table: pk -> row
    files,       \* media storage: path -> the PDF stored there (a sequence of pages)
    redactions,  \* Redaction table in Meta.ordering (creation order)
    nextPk,      \* next Redaction primary key
    requests,    \* the download requests: request -> its local state
    mapper,      \* the coordinate mapping applied to one rectangle alone
    burn,        \* the page burner applied to one page alone, once and again
    seeded,      \* runs of seed_documents after the first
    uploads      \* documents added through the admin

vars == <<documents, files, redactions, nextPk, requests, mapper, burn, seeded, uploads>>

DocIds     == 1..NumDocuments
\* Every primary key a Document can get
DocumentPks == 1..(NumDocuments * (MaxSeeds + 1) + MaxUploads)
RequestIds == 1..MaxRequests

\* ------------------------------------------------------------ seeded PDFs
\* A page dictionary: its content stream, its media box, and no /Annots key.
SeedPage(d, i) ==
    [Contents |-> <<d, i>>, MediaBox |-> <<0, 0, LetterWidth, LetterHeight>>]

create_pdf(d) == [i \in 1..d |-> SeedPage(d, i)]

\* ------------------------------------------------------------- JSON input
\* coords.get(key, default)
Get(coords, key, default) ==
    IF key \in DOMAIN coords THEN coords[key] ELSE default

\* A JSON object is its numeric entries plus, under "text", the keys whose
\* value is not a number.
TextKeys(coords) == IF "text" \in DOMAIN coords THEN coords["text"] ELSE {}

\* float(coords.get(key, 0)) raises for one of the four keys
float_raises(coords) == TextKeys(coords) \cap {"x", "y", "width", "height"} # {}

PageValues == 0..NumDocuments

\* The rectangles an admin stores: the spec's scenario A, a zero width, a
\* missing height, one that lies outside a letter page, and one whose x is
\* a string.
Rectangles ==
    { [x |-> 100, y |-> 200, width |-> 150, height |-> 20],
      [x |-> 100, y |-> 200, width |-> 0,   height |-> 20],
      [x |-> 100, y |-> 200, width |-> 150],
      [x |-> 700, y |-> 900, width |-> 10,  height |-> 10],
      [text |-> {"x"}] }

\* An uploaded file that is not a PDF: no page can be parsed from it.
NotAPdf == <<>>

\* PdfReader(f) raises on it
Parseable(pdf) == pdf # NotAPdf

Coordinates == { rect @@ ("page" :> p) : rect \in Rectangles, p \in PageValues }

\* ------------------------------------------------- document_download_redacted
\* Mutant of document_redactions: Redaction.objects.all(), the document forgotten
document_redactions_All(d) == redactions

\* document.redactions.all(): a lazy QuerySet, evaluated when it is iterated
document_redactions(d) ==
    SelectSeq(redactions, LAMBDA rd : rd.document = d)

\* Mutant of page_redactions: the 0-indexed page_num compared with the stored page
page_redactions_ZeroIndexed(d, page_num) ==
    SelectSeq(SelectSeq(redactions, LAMBDA rd : rd.document = d),
              LAMBDA rd : /\ "page" \in DOMAIN rd.coordinates
                          /\ rd.coordinates["page"] = page_num)

\* Mutant of page_redactions: the rows of every document with that page
page_redactions_AnyDocument(d, page_num) ==
    SelectSeq(redactions,
              LAMBDA rd : /\ "page" \in DOMAIN rd.coordinates
                          /\ rd.coordinates["page"] = page_num + 1)

\* redactions.filter(coordinates__page=page_num + 1); page_num is 0-indexed
page_redactions(d, page_num) ==
    SelectSeq(document_redactions(d),
              LAMBDA rd : /\ "page" \in DOMAIN rd.coordinates
                          /\ rd.coordinates["page"] = page_num + 1)

\* Mutant of mediabox_height: the height read from the last /Rect in the page
\* dictionary when the page has annotations
mediabox_height_LastRect(page) ==
    IF "Annots" \in DOMAIN page /\ page["Annots"] # <<>>
    THEN page["Annots"][Len(page["Annots"])].Rect[4]
    ELSE page.MediaBox[4] - page.MediaBox[2]

\* float(page.mediabox.height)
mediabox_height(page) == page.MediaBox[4] - page.MediaBox[2]

\* Mutant of MarkRect: the y axis not flipped
MarkRect_NoFlip(coords, page_height) ==
    LET x      == Get(coords, "x", 0)
        y      == Get(coords, "y", 0)
        width  == Get(coords, "width", 0)
        height == Get(coords, "height", 0)
    IN  <<x, y, x + width, y + height>>

\* Mutant of MarkRect: the height not subtracted, so the rectangle hangs from
\* its lower edge
MarkRect_UpperEdge(coords, page_height) ==
    LET x      == Get(coords, "x", 0)
        y      == page_height - Get(coords, "y", 0)
        width  == Get(coords, "width", 0)
        height == Get(coords, "height", 0)
    IN  <<x, y, x + width, y + height>>

\* The /Rect of the annotation, from the stored coordinates
MarkRect(coords, page_height) ==
    LET x      == Get(coords, "x", 0)
        y      == page_height - Get(coords, "y", 0) - Get(coords, "height", 0)
        width  == Get(coords, "width", 0)
        height == Get(coords, "height", 0)
    IN  <<x, y, x + width, y + height>>

redaction_annotation(coords, page_height) ==
    [Type    |-> "Annot",
     Subtype |-> "Square",
     Rect    |-> MarkRect(coords, page_height),
     C       |-> <<0, 0, 0>>,
     IC      |-> <<0, 0, 0>>,
     BS      |-> [W |-> 0]]

\* Mutant of append_annotation: the array assigned anew for every annotation
append_annotation_Replace(page, annot) ==
    [k \in DOMAIN page \cup {"Annots"} |->
        IF k = "Annots" THEN <<annot>> ELSE page[k]]

\* if "/Annots" not in page: page["/Annots"] = ArrayObject(); then append
append_annotation(page, annot) ==
    LET withArray == IF "Annots" \notin DOMAIN page
                     THEN page @@ ("Annots" :> <<>>)
                     ELSE page
    IN  [withArray EXCEPT !["Annots"] = Append(@, annot)]

\* for redaction in page_redactions: ... page["/Annots"].append(...)
RECURSIVE apply_redactions(_, _)
apply_redactions(page, reds) ==
    IF reds = <<>>
    THEN page
    ELSE apply_redactions(
             append_annotation(page,
                 redaction_annotation(Head(reds).coordinates, mediabox_height(page))),
             Tail(reds))

\* Mutant of PdfReader: a parsed document cached per path and shared by requests
PdfReader_Shared(path) ==
    IF \E r \in RequestIds : requests[r].pc # "idle" /\ requests[r].file = path
    THEN requests[CHOOSE r \in RequestIds :
                      requests[r].pc # "idle" /\ requests[r].file = path].reader
    ELSE files[path]

\* PdfReader(f): this request's own parse of the stored file
PdfReader(path) == files[path]

\* PdfWriter()
PdfWriter == <<>>

\* Mutant of add_page: the page inserted at the front
add_page_Front(writer, page) == <<page>> \o writer

\* writer.add_page(page)
add_page(writer, page) == Append(writer, page)

IdleRequest ==
    [pc |-> "idle", document |-> 0, file |-> 0, reader |-> <<>>, page_num |-> 0,
     writer |-> <<>>, output |-> <<>>, startPk |-> 0]

\* The page the burner is tried on: MaxPt points wide and high.
BurnPage == [Contents |-> <<1, 1>>, MediaBox |-> <<0, 0, MaxPt, MaxPt>>]

IdleBurn ==
    [set |-> {}, order |-> <<>>, stage |-> 0, once |-> BurnPage, twice |-> BurnPage]

\* -------------------------------------------------------------------- Init
\* The database after seed_documents: the documents, and no redaction.
Init ==
    /\ documents = [d \in DocIds |-> [title |-> d, file |-> d]]
    /\ files = [d \in DocIds |-> create_pdf(d)]
    /\ redactions = <<>>
    /\ nextPk = 1
    /\ requests = [r \in RequestIds |-> IdleRequest]
    /\ mapper = [rect |-> [x |-> 0, y |-> 0, width |-> 0, height |-> 0],
                 pageHeightPts |-> 1, done |-> FALSE, out |-> <<0, 0, 0, 0>>]
    /\ burn = IdleBurn
    /\ seeded = 0
    /\ uploads = 0

\* ------------------------------------------------------------------- admin
\* RedactionAdmin's add view: any existing document, any JSON object.
AdminAddRedaction(d, coords) ==
    /\ nextPk <= MaxRedactions
    /\ d \in DOMAIN documents
    /\ redactions' = Append(redactions,
                            [pk |-> nextPk, document |-> d, coordinates |-> coords])
    /\ nextPk' = nextPk + 1
    /\ UNCHANGED <<documents, files, requests, mapper, burn, seeded, uploads>>

\* Mutant of on_delete_CASCADE: on_delete=DO_NOTHING
on_delete_DO_NOTHING(deleted) == redactions

\* Redaction.document is on_delete=CASCADE: the rows left when the documents
\* `deleted` are deleted
on_delete_CASCADE(deleted) ==
    SelectSeq(redactions, LAMBDA rd : rd.document \notin deleted)

\* DocumentAdmin's delete view.  The stored file stays in media storage.
AdminDeleteDocument(d) ==
    /\ d \in DOMAIN documents
    /\ documents' = [e \in DOMAIN documents \ {d} |-> documents[e]]
    /\ redactions' = on_delete_CASCADE({d})
    /\ UNCHANGED <<files, nextPk, requests, mapper, burn, seeded, uploads>>

\* The next Document primary key
nextDocumentPk == NumDocuments * (seeded + 1) + uploads + 1

\* DocumentAdmin's add view: a title and any file
AdminAddDocument(upload) ==
    /\ uploads < MaxUploads
    /\ documents' = documents @@
           (nextDocumentPk :> [title |-> nextDocumentPk, file |-> nextDocumentPk])
    /\ files' = files @@ (nextDocumentPk :> upload)
    /\ uploads' = uploads + 1
    /\ UNCHANGED <<redactions, nextPk, requests, mapper, burn, seeded>>

\* seed_documents: Document.objects.all().delete(), then the sample documents
\* are created again, each saved under a new file name.
SeedDocuments ==
    LET created == {nextDocumentPk + i - 1 : i \in 1..NumDocuments}
    IN  /\ seeded < MaxSeeds
        /\ documents' = [d \in created |->
                            [title |-> d - nextDocumentPk + 1, file |-> d]]
        /\ redactions' = on_delete_CASCADE(DOMAIN documents)
        /\ files' = [d \in DOMAIN files \cup created |->
                        IF d \in created
                        THEN create_pdf(d - nextDocumentPk + 1)
                        ELSE files[d]]
        /\ seeded' = seeded + 1
        /\ UNCHANGED <<nextPk, requests, mapper, burn, uploads>>

\* redaction_create: get_object_or_404, then Redaction.objects.create with
\* redaction_type=None and coordinates=None, which the NOT NULL columns
\* reject; the view ends in an error and no row is stored.
redaction_create(d) ==
    /\ UNCHANGED vars

\* ---------------------------------------------------------------- download
\* get_object_or_404, document.redactions.all(), open, PdfReader, PdfWriter.
\* startPk is a history field: the Redaction keys below it existed when the
\* request began.  Requests are numbered in the order they arrive.
DownloadBegin(r, d) ==
    /\ requests[r].pc = "idle"
    /\ r > 1 => requests[r - 1].pc # "idle"
    /\ IF d \notin DOMAIN documents
       THEN requests' = [requests EXCEPT ![r].pc = "notfound"]
       ELSE IF ~Parseable(files[documents[d].file])
       THEN requests' = [requests EXCEPT ![r] =
                [IdleRequest EXCEPT !.pc = "failed", !.document = d,
                                    !.file = documents[d].file, !.startPk = nextPk]]
       ELSE requests' = [requests EXCEPT ![r] =
                [pc |-> "pages", document |-> d, file |-> documents[d].file,
                 reader |-> PdfReader(documents[d].file), page_num |-> 0,
                 writer |-> PdfWriter, output |-> <<>>, startPk |-> nextPk]]
    /\ UNCHANGED <<documents, files, redactions, nextPk, mapper, burn, seeded, uploads>>

\* One iteration of `for page_num in range(len(reader.pages))`.  When float()
\* raises, the exception leaves the view and no response body is built.
DownloadPage(r) ==
    LET req  == requests[r]
        reds == page_redactions(req.document, req.page_num)
        page == apply_redactions(req.reader[req.page_num + 1], reds)
    IN  /\ req.pc = "pages"
        /\ req.page_num < Len(req.reader)
        /\ IF \E k \in 1..Len(reds) : float_raises(reds[k].coordinates)
           THEN requests' = [requests EXCEPT ![r].pc = "failed"]
           ELSE requests' = [requests EXCEPT
                    ![r].reader   = [@ EXCEPT ![req.page_num + 1] = page],
                    ![r].writer   = add_page(@, page),
                    ![r].page_num = @ + 1]
        /\ UNCHANGED <<documents, files, redactions, nextPk, mapper, burn, seeded, uploads>>

\* Mutant of DownloadFinish: the return indented into the page loop
DownloadFinish_InLoop(r) ==
    LET req == requests[r]
    IN  /\ req.pc = "pages"
        /\ req.page_num >= 1
        /\ requests' = [requests EXCEPT ![r].pc = "done", ![r].output = req.writer]
        /\ UNCHANGED <<documents, files, redactions, nextPk, mapper, burn, seeded, uploads>>

\* writer.write(output); return FileResponse(output, ...)
DownloadFinish(r) ==
    LET req == requests[r]
    IN  /\ req.pc = "pages"
        /\ req.page_num = Len(req.reader)
        /\ requests' = [requests EXCEPT ![r].pc = "done", ![r].output = req.writer]
        /\ UNCHANGED <<documents, files, redactions, nextPk, mapper, burn, seeded, uploads>>

Next ==
    \/ \E d \in DocumentPks, coords \in Coordinates : AdminAddRedaction(d, coords)
    \/ \E d \in DocumentPks : AdminDeleteDocument(d)
    \/ \E d \in DocumentPks : redaction_create(d)
    \/ \E r \in RequestIds, d \in DocumentPks : DownloadBegin(r, d)
    \/ \E r \in RequestIds : DownloadPage(r)
    \/ \E r \in RequestIds : DownloadFinish(r)

Spec == Init /\ [][Next]_vars

\* The life of the store alone: every handler and command that writes
\* documents or redactions, with no download in flight.
StoreNext ==
    \/ \E d \in DocumentPks, coords \in Coordinates : AdminAddRedaction(d, coords)
    \/ \E d \in DocumentPks : AdminDeleteDocument(d)
    \/ AdminAddDocument(NotAPdf)
    \/ SeedDocuments
    \/ \E d \in DocumentPks : redaction_create(d)

StoreSpec == Init /\ [][StoreNext]_vars

\* Downloads over sources that were uploaded as well as seeded.
SourceNext ==
    \/ \E d \in DocumentPks, coords \in Coordinates : AdminAddRedaction(d, coords)
    \/ AdminAddDocument(NotAPdf)
    \/ \E r \in RequestIds, d \in DocumentPks : DownloadBegin(r, d)
    \/ \E r \in RequestIds : DownloadPage(r)
    \/ \E r \in RequestIds : DownloadFinish(r)

SourceSpec == Init /\ [][SourceNext]_vars

\* ------------------------------------------------- the coordinate mapping alone
\* Every rectangle and page height up to MaxPt, and the mapping applied to it.
MapInputs ==
    [rect : [x : 0..MaxPt, y : 0..MaxPt, width : 0..MaxPt, height : 0..MaxPt],
     pageHeightPts : 1..MaxPt, done : {FALSE}, out : {<<0, 0, 0, 0>>}]

MapInit ==
    /\ documents = [d \in DocIds |-> [title |-> d, file |-> d]]
    /\ files = [d \in DocIds |-> create_pdf(d)]
    /\ redactions = <<>>
    /\ nextPk = 1
    /\ requests = [r \in RequestIds |-> IdleRequest]
    /\ mapper \in MapInputs
    /\ burn = IdleBurn
    /\ seeded = 0
    /\ uploads = 0

MapApply ==
    /\ ~mapper.done
    /\ mapper' = [mapper EXCEPT !.done = TRUE,
                                !.out = MarkRect(mapper.rect, mapper.pageHeightPts)]
    /\ UNCHANGED <<documents, files, redactions, nextPk, requests, burn, seeded, uploads>>

MapNext == MapApply

MapSpec == MapInit /\ [][MapNext]_vars

\* ------------------------------------------------------- the page burner alone
\* Every set of at most MaxBurn rectangles of page 1 that lie on BurnPage's
\* grid, burned into BurnPage in some order, and then burned again, in the
\* same order, into the page the first burn produced.
BurnCoordinates ==
    [x : 0..(MaxPt - 2), y : 0..(MaxPt - 2), width : 1..2, height : 1..2, page : {1}]

RECURSIVE SetsUpTo(_)
SetsUpTo(n) ==
    IF n = 0
    THEN {{}}
    ELSE LET smaller == SetsUpTo(n - 1)
         IN  smaller \cup {s \cup {c} : s \in smaller, c \in BurnCoordinates}

\* The orders in which the rows of a set can come out of the database.
Orderings(S) ==
    {q \in [1..Cardinality(S) -> S] : \A c \in S : \E k \in DOMAIN q : q[k] = c}

Rows(q) == [k \in DOMAIN q |-> [pk |-> k, document |-> 1, coordinates |-> q[k]]]

BurnInit ==
    /\ documents = [d \in DocIds |-> [title |-> d, file |-> d]]
    /\ files = [d \in DocIds |-> create_pdf(d)]
    /\ redactions = <<>>
    /\ nextPk = 1
    /\ requests = [r \in RequestIds |-> IdleRequest]
    /\ mapper = [rect |-> [x |-> 0, y |-> 0, width |-> 0, height |-> 0],
                 pageHeightPts |-> 1, done |-> FALSE, out |-> <<0, 0, 0, 0>>]
    /\ seeded = 0
    /\ uploads = 0
    /\ \E S \in SetsUpTo(MaxBurn) : burn = [IdleBurn EXCEPT !.set = S]

BurnOnce ==
    /\ burn.stage = 0
    /\ \E q \in Orderings(burn.set) :
           burn' = [burn EXCEPT !.stage = 1, !.order = q,
                                !.once = apply_redactions(BurnPage, Rows(q))]
    /\ UNCHANGED <<documents, files, redactions, nextPk, requests, mapper, seeded, uploads>>

BurnAgain ==
    /\ burn.stage = 1
    /\ burn' = [burn EXCEPT !.stage = 2,
                            !.twice = apply_redactions(burn.once, Rows(burn.order))]
    /\ UNCHANGED <<documents, files, redactions, nextPk, requests, mapper, seeded, uploads>>

BurnNext == BurnOnce \/ BurnAgain

BurnSpec == BurnInit /\ [][BurnNext]_vars

\* ------------------------------------------------------------ claim helpers
\* Request r runs one iteration of the page loop in this step.
PageStep(r) ==
    /\ requests[r].pc = "pages"
    /\ requests'[r].page_num = requests[r].page_num + 1

\* The page the step of request r appends to its writer.
NewPage(r) == requests'[r].writer[Len(requests'[r].writer)]

\* The stored page that request r is about to process.
SourcePage(r) == files[requests[r].file][requests[r].page_num + 1]

\* The rows of document d stored now whose 1-indexed page is p, in creation order.
StoredOnPage(d, p) ==
    SelectSeq(redactions,
              LAMBDA rd : /\ rd.document = d
                          /\ "page" \in DOMAIN rd.coordinates
                          /\ rd.coordinates["page"] = p)

HasRectKeys(coords) == {"x", "y", "width", "height"} \subseteq DOMAIN coords

\* The spec's transform: x0 = x, y1 = H - y, y0 = y1 - height, x1 = x0 + width.
mapToPdfSpace(rect, pageHeightPts) ==
    LET x0 == rect.x
        y1 == pageHeightPts - rect.y
        y0 == y1 - rect.height
        x1 == x0 + rect.width
    IN  <<x0, y0, x1, y1>>

\* The annotations of a page dictionary (none when it has no /Annots key).
AnnotsOf(page) == IF "Annots" \in DOMAIN page THEN page["Annots"] ELSE <<>>

IsBlackMark(a) ==
    /\ a.Subtype = "Square"
    /\ a.C = <<0, 0, 0>>
    /\ a.IC = <<0, 0, 0>>
    /\ a.BS.W = 0

ScenarioA == [x |-> 100, y |-> 200, width |-> 150, height |-> 20]

\* The rows of document d stored now, in creation order.
StoredFor(d) == SelectSeq(redactions, LAMBDA rd : rd.document = d)

\* The rows of document d that existed when request r began and are still stored.
StoredAtStart(r, p) ==
    SelectSeq(StoredOnPage(requests[r].document, p),
              LAMBDA rd : rd.pk < requests[r].startPk)

\* A page dictionary with its /Annots entry removed.
StripAnnotations(page) == [k \in DOMAIN page \ {"Annots"} |-> page[k]]

ZeroOrNegativeArea(rect) == rect[3] <= rect[1] \/ rect[4] <= rect[2]

EntirelyOutside(rect, mediabox) ==
    \/ rect[3] <= mediabox[1]
    \/ rect[1] >= mediabox[3]
    \/ rect[4] <= mediabox[2]
    \/ rect[2] >= mediabox[4]

Done(r) == requests[r].pc = "done"

\* ------------------------------------------------------------------ claims

\* C1: every stored redaction {x, y, width, height} read for a page of
\* media-box height H gets a mark whose rectangle is x0 = x, y1 = H - y,
\* y0 = y1 - height, x1 = x0 + width; and H = 792 with
\* {x:100, y:200, width:150, height:20} gives <<100, 572, 250, 592>>.
C1_MarkRectangle ==
    [][\A r \in RequestIds : PageStep(r) =>
          LET q     == StoredOnPage(requests[r].document, requests[r].page_num + 1)
              H     == SourcePage(r).MediaBox[4] - SourcePage(r).MediaBox[2]
              marks == AnnotsOf(NewPage(r))
          IN  \A k \in 1..Len(q) :
                  LET c == q[k].coordinates
                  IN  HasRectKeys(c) =>
                        /\ k <= Len(marks)
                        /\ marks[k].Rect = mapToPdfSpace(c, H)
                        /\ (/\ H = 792
                            /\ c.x = ScenarioA.x /\ c.y = ScenarioA.y
                            /\ c.width = ScenarioA.width /\ c.height = ScenarioA.height)
                           => marks[k].Rect = <<100, 572, 250, 592>>
      ]_vars

C1_Witness ==
    \E r \in RequestIds :
        /\ Done(r)
        /\ Len(files[requests[r].file]) = 1
        /\ \E k \in 1..Len(AnnotsOf(requests[r].output[1])) :
               AnnotsOf(requests[r].output[1])[k].Rect = <<100, 572, 250, 592>>

\* C2: a page step puts exactly one black mark on the page it appends for
\* each stored redaction of the request's document whose 1-indexed page is
\* that page's position, and none for any other redaction; the appended
\* pages stay as they are and become the output; so page p of a finished
\* output carries a mark for each redaction of page p stored since before
\* the request began.
C2_OneMarkOnItsPage ==
    /\ [](\A r \in RequestIds : Done(r) =>
            \A p \in 1..Len(requests[r].output) :
                Len(AnnotsOf(requests[r].output[p])) >= Len(StoredAtStart(r, p)))
    /\ [][\A r \in RequestIds :
          /\ PageStep(r) =>
                LET p     == requests[r].page_num + 1
                    q     == StoredOnPage(requests[r].document, p)
                    marks == AnnotsOf(NewPage(r))
                IN  /\ Len(requests'[r].writer) = p
                    /\ Len(marks) = Len(q)
                    /\ \A k \in 1..Len(marks) : IsBlackMark(marks[k])
          /\ requests[r].pc = "pages" =>
                /\ \A i \in 1..Len(requests[r].writer) :
                       requests'[r].writer[i] = requests[r].writer[i]
                /\ requests'[r].pc = "done" => requests'[r].output = requests[r].writer
      ]_vars

C2_Witness ==
    \E r \in RequestIds :
        /\ Done(r)
        /\ Len(requests[r].output) = 2
        /\ Len(StoredAtStart(r, 2)) = 1
        /\ Len(StoredFor(requests[r].document)) = 1
        /\ Len(AnnotsOf(requests[r].output[2])) = 1
        /\ AnnotsOf(requests[r].output[1]) = <<>>

\* C3: a finished generation has as many pages as the stored source, and its
\* page i carries the content and media box of source page i.
C3_PagesPreserved ==
    \A r \in RequestIds : Done(r) =>
        LET src == files[requests[r].file]
            out == requests[r].output
        IN  /\ Len(out) = Len(src)
            /\ \A i \in 1..Len(out) : /\ out[i].Contents = src[i].Contents
                                      /\ out[i].MediaBox = src[i].MediaBox

C3_Witness ==
    \E r \in RequestIds :
        /\ Done(r)
        /\ Len(requests[r].output) = 2
        /\ AnnotsOf(requests[r].output[1]) # <<>>
        /\ AnnotsOf(requests[r].output[2]) # <<>>

\* C4: an output page that carries a mark is still redacted once its
\* annotations are removed: stripped, it differs from the source page.
C4_BurnedIntoContent ==
    \A r \in RequestIds : Done(r) =>
        \A i \in 1..Len(requests[r].output) :
            AnnotsOf(requests[r].output[i]) # <<>> =>
                StripAnnotations(requests[r].output[i]) # files[requests[r].file][i]

\* C5: no generation finishes while a redaction of its document, stored
\* since before the request began, targets a page outside 1..pageCount.
C5_OutOfRangePageFails ==
    \A r \in RequestIds : Done(r) =>
        ~ \E k \in 1..Len(redactions) :
              /\ redactions[k].document = requests[r].document
              /\ redactions[k].pk < requests[r].startPk
              /\ "page" \in DOMAIN redactions[k].coordinates
              /\ redactions[k].coordinates["page"] \notin 1..Len(files[requests[r].file])

\* C6: no output carries a mark of zero or negative area, nor one that lies
\* entirely outside its page's media box.
C6_InvalidRectangleFails ==
    \A r \in RequestIds : Done(r) =>
        \A i \in 1..Len(requests[r].output) :
            \A k \in 1..Len(AnnotsOf(requests[r].output[i])) :
                LET rect == AnnotsOf(requests[r].output[i])[k].Rect
                IN  /\ ~ZeroOrNegativeArea(rect)
                    /\ ~EntirelyOutside(rect, requests[r].output[i].MediaBox)

\* C7: the marks of a finished output are those of the redactions that were
\* stored when the request began (the document still being stored).
C7_SnapshotAtStart ==
    \A r \in RequestIds :
        Done(r) /\ requests[r].document \in DOMAIN documents =>
            \A p \in 1..Len(requests[r].output) :
                LET marks == AnnotsOf(requests[r].output[p])
                    snap  == StoredAtStart(r, p)
                IN  /\ Len(marks) = Len(snap)
                    /\ \A k \in 1..Len(marks) :
                           marks[k].Rect =
                               MarkRect(snap[k].coordinates,
                                        mediabox_height(requests[r].output[p]))

\* C7, in the weaker form the claim implies: the marks of a finished output
\* are those of the redactions stored at some one instant of the request
\* (rows are only added while the document lives, so the table at an instant
\* is the rows with keys below some t).
C7_SomeInstant ==
    \A r \in RequestIds :
        Done(r) /\ requests[r].document \in DOMAIN documents =>
            \E t \in requests[r].startPk..nextPk :
                \A p \in 1..Len(requests[r].output) :
                    Len(AnnotsOf(requests[r].output[p])) =
                        Len(SelectSeq(StoredOnPage(requests[r].document, p),
                                      LAMBDA rd : rd.pk < t))

\* C8: a step of a download changes no stored file, Document or Redaction; a
\* request begins with an empty writer and the stored pages; and each page it
\* appends is the stored source page plus one mark per redaction of its own
\* document on that page, whatever other requests did.
C8_Stateless ==
    [][/\ requests' # requests =>
              UNCHANGED <<documents, files, redactions, nextPk>>
       /\ \A r \in RequestIds :
              /\ requests[r].pc = "idle" /\ requests'[r].pc = "pages" =>
                    /\ requests'[r].writer = <<>>
                    /\ requests'[r].reader = files[requests'[r].file]
              /\ PageStep(r) =>
                    LET src == SourcePage(r)
                        q   == StoredOnPage(requests[r].document,
                                            requests[r].page_num + 1)
                    IN  /\ NewPage(r).Contents = src.Contents
                        /\ NewPage(r).MediaBox = src.MediaBox
                        /\ Len(AnnotsOf(NewPage(r))) = Len(AnnotsOf(src)) + Len(q)
      ]_vars

C8_Witness ==
    /\ \A r \in RequestIds : Done(r)
    /\ \A r \in RequestIds : requests[r].document = requests[1].document
    /\ \A r \in RequestIds : Len(AnnotsOf(requests[r].output[1])) = 1
    /\ files = [d \in DocIds |-> create_pdf(d)]
    /\ Len(redactions) = 1

\* C9: for x >= 0, width > 0, height > 0, 0 <= y <= pageHeight and
\* y + height <= pageHeight, the computed rectangle has
\* 0 <= y0 <= y1 <= pageHeight and x0 <= x1.
C9_MappedWithinPage ==
    mapper.done =>
        LET rc == mapper.rect
            H  == mapper.pageHeightPts
            o  == mapper.out
        IN  (/\ rc.x >= 0 /\ rc.width > 0 /\ rc.height > 0
             /\ 0 <= rc.y /\ rc.y <= H /\ rc.y + rc.height <= H)
            => /\ 0 <= o[2] /\ o[2] <= o[4] /\ o[4] <= H
               /\ o[1] <= o[3]

C9_Witness ==
    /\ mapper.done
    /\ mapper.rect.width > 0
    /\ mapper.rect.height > 0
    /\ mapper.rect.y > 0
    /\ mapper.rect.y + mapper.rect.height = mapper.pageHeightPts
    /\ mapper.out[2] = 0

\* C10: while the request's document has no stored redaction, each page step
\* appends the stored source page itself, at its own position, with no
\* /Annots entry added; the finished output has the source's page count.
C10_NoRedactionsIdentity ==
    [][\A r \in RequestIds :
          /\ PageStep(r) /\ StoredFor(requests[r].document) = <<>> =>
                /\ NewPage(r) = SourcePage(r)
                /\ Len(requests'[r].writer) = requests[r].page_num + 1
          /\ requests[r].pc = "pages" /\ requests'[r].pc = "done" =>
                Len(requests'[r].output) = Len(files[requests[r].file])
      ]_vars

C10_Witness ==
    \E r \in RequestIds :
        /\ Done(r)
        /\ Len(requests[r].output) = 2
        /\ requests[r].output = files[requests[r].file]
        /\ StoredFor(requests[r].document) = <<>>
        /\ requests[r].startPk > 1
        /\ redactions # <<>>

\* The unit cells of a page that a PDF-space rectangle covers.
Cells(rect, mediabox) ==
    {<<i, j>> \in (mediabox[1]..(mediabox[3] - 1)) \X (mediabox[2]..(mediabox[4] - 1)) :
        /\ rect[1] <= i /\ i < rect[3]
        /\ rect[2] <= j /\ j < rect[4]}

\* The blacked-out region of a page: the cells under one of its black marks.
Covered(page) ==
    UNION {Cells(AnnotsOf(page)[k].Rect, page.MediaBox) :
               k \in {n \in 1..Len(AnnotsOf(page)) : IsBlackMark(AnnotsOf(page)[n])}}

\* The rectangles of the black marks of a page.
MarkRects(page) ==
    {AnnotsOf(page)[k].Rect :
         k \in {n \in 1..Len(AnnotsOf(page)) : IsBlackMark(AnnotsOf(page)[n])}}

\* The region the spec's transform assigns to a set of UI-space rectangles.
RequestedRegion(S, page) ==
    UNION {Cells(mapToPdfSpace(c, page.MediaBox[4] - page.MediaBox[2]), page.MediaBox) :
               c \in S}

\* No two rectangles of the set share a point (in UI space).
NonOverlapping(S) ==
    \A a, b \in S : a # b =>
        \/ a.x + a.width <= b.x \/ b.x + b.width <= a.x
        \/ a.y + a.height <= b.y \/ b.y + b.height <= a.y

\* C11: burning a non-overlapping set into a page and then the same set again
\* into the result leaves, on the page, the same blacked-out rectangles and
\* the same blacked-out region as burning it once.
C11_BurnIdempotent ==
    burn.stage = 2 /\ NonOverlapping(burn.set) =>
        /\ MarkRects(burn.twice) = MarkRects(burn.once)
        /\ Covered(burn.twice) = Covered(burn.once)

C11_Witness ==
    /\ burn.stage = 2
    /\ Cardinality(burn.set) = 2
    /\ NonOverlapping(burn.set)
    /\ Len(AnnotsOf(burn.twice)) = 4
    /\ Covered(burn.twice) # {}

\* C12: whatever the order in which a page's redactions are processed, the
\* page carries one black mark for each, and the blacked-out region is the
\* union of the requested rectangles, the same for every other order.
C12_OrderIndependent ==
    burn.stage >= 1 =>
        /\ Len(AnnotsOf(burn.once)) = Cardinality(burn.set)
        /\ \A k \in 1..Len(AnnotsOf(burn.once)) : IsBlackMark(AnnotsOf(burn.once)[k])
        /\ Covered(burn.once) = RequestedRegion(burn.set, BurnPage)
        /\ \A q \in Orderings(burn.set) :
               Covered(apply_redactions(BurnPage, Rows(q))) = Covered(burn.once)

\* Two rectangles that overlap, neither inside the other, burned in the order
\* opposite to their order as records.
C12_Witness ==
    /\ burn.stage = 1
    /\ burn.order = <<[x |-> 1, y |-> 1, width |-> 2, height |-> 2, page |-> 1],
                      [x |-> 0, y |-> 0, width |-> 2, height |-> 2, page |-> 1]>>
    /\ Cardinality(Covered(burn.once)) = 7


\* C13: every stored Redaction belongs to one Document that exists, and a
\* step that deletes Documents (the admin's delete or seed_documents) removes
\* the redactions of the deleted documents and no others.
C13_RedactionsFollowDocuments ==
    /\ [](\A k \in 1..Len(redactions) : redactions[k].document \in DOMAIN documents)
    /\ [][LET deleted == DOMAIN documents \ DOMAIN documents'
          IN  deleted # {} =>
                  redactions' = SelectSeq(redactions,
                                          LAMBDA rd : rd.document \notin deleted)]_vars

\* document 1 was deleted with one redaction; the redaction of document 2 is left
C13_Witness ==
    /\ seeded = 0
    /\ DOMAIN documents = {2}
    /\ nextPk = 3
    /\ Len(redactions) = 1
    /\ redactions[1].document = 2

\* pageCount(document): the pages of the stored source of document d
pageCount(d) == Len(files[documents[d].file])

\* C14: every stored Redaction has numeric x, y, width, height and page with
\* 1 <= page <= pageCount(document), width > 0, height > 0, x >= 0, y >= 0.
C14_StoredCoordinatesValid ==
    \A k \in 1..Len(redactions) :
        LET c == redactions[k].coordinates
        IN  /\ HasRectKeys(c)
            /\ "page" \in DOMAIN c
            /\ TextKeys(c) = {}
            /\ 1 <= c["page"] /\ c["page"] <= pageCount(redactions[k].document)
            /\ c["width"] > 0 /\ c["height"] > 0
            /\ c["x"] >= 0 /\ c["y"] >= 0

\* A row read for the page request r is about to process makes float() raise.
PageFails(r) ==
    LET rows == StoredOnPage(requests[r].document, requests[r].page_num + 1)
    IN  \E k \in 1..Len(rows) : float_raises(rows[k].coordinates)

\* C15: generation is all-or-nothing.  Only a finished request has output
\* bytes, and they hold every page of the source; a request whose source is
\* not a parseable PDF, or that fails on a page, ends in an error with no
\* output and stays so.
C15_AllOrNothing ==
    /\ [](\A r \in RequestIds :
            /\ requests[r].output # <<>> => Done(r)
            /\ Done(r) => /\ requests[r].page_num = Len(files[requests[r].file])
                          /\ Len(requests[r].output) = Len(files[requests[r].file]))
    /\ [][\A r \in RequestIds :
            /\ ( /\ requests[r].pc = "idle"
                 /\ requests'[r].pc \notin {"idle", "notfound"}
                 /\ ~Parseable(files[requests'[r].file]) )
               => requests'[r].pc = "failed"
            /\ ( /\ requests[r].pc = "pages"
                 /\ requests'[r] # requests[r]
                 /\ requests[r].page_num < Len(requests[r].reader)
                 /\ PageFails(r) )
               => requests'[r].pc = "failed" /\ requests'[r].output = <<>>
            /\ requests[r].pc = "failed" => requests'[r] = requests[r]]_vars

\* request 1 failed on page 2 of document 2 after page 1 was processed, and
\* request 2 failed on an uploaded file that is not a PDF
C15_Witness ==
    /\ requests[1].pc = "failed"
    /\ requests[1].document = 2
    /\ requests[1].page_num = 1
    /\ requests[1].output = <<>>
    /\ requests[2].pc = "failed"
    /\ files[requests[2].file] = NotAPdf
    /\ requests[2].output = <<>>

\* C16: redactions are isolated per document.  Every mark a page step adds
\* to a page of document D comes from a row stored for D with that page; when
\* D has no row for the page the page is copied as it is, whatever rows other
\* documents have for the same page number; and a request for a document id
\* that does not exist reads nothing and produces no output.
C16_IsolatedPerDocument ==
    /\ [](\A r \in RequestIds : requests[r].pc = "notfound" =>
             /\ requests[r].output = <<>>
             /\ requests[r].writer = <<>>
             /\ requests[r].reader = <<>>)
    /\ [][\A r \in RequestIds :
            /\ PageStep(r) =>
                  LET d     == requests[r].document
                      p     == requests[r].page_num + 1
                      H     == SourcePage(r).MediaBox[4] - SourcePage(r).MediaBox[2]
                      marks == AnnotsOf(NewPage(r))
                  IN  /\ \A k \in 1..Len(marks) :
                             \E j \in 1..Len(redactions) :
                                 LET c == redactions[j].coordinates
                                 IN  /\ redactions[j].document = d
                                     /\ "page" \in DOMAIN c
                                     /\ c["page"] = p
                                     /\ HasRectKeys(c) => marks[k].Rect = mapToPdfSpace(c, H)
                      /\ Len(marks) <= Len(StoredOnPage(d, p))
                      /\ StoredOnPage(d, p) = <<>> => NewPage(r) = SourcePage(r)
            /\ ( /\ requests[r].pc = "idle"
                 /\ requests'[r].pc = "pages" )
               => requests'[r].document \in DOMAIN documents
          ]_vars

\* request 1 served document 1, whose page 1 has one mark, while document 2
\* has a row with the same coordinates and page; request 2 asked for an id
\* that does not exist
C16_Witness ==
    /\ Done(1)
    /\ requests[1].document = 1
    /\ requests[1].startPk = 3
    /\ Len(AnnotsOf(requests[1].output[1])) = 1
    /\ Len(redactions) = 2
    /\ redactions[1].document = 2
    /\ redactions[2].document = 1
    /\ redactions[1].coordinates = redactions[2].coordinates
    /\ requests[2].pc = "notfound"

====
